---- MODULE Spec2Model ----
(***************************************************************************)
(* Job execution layer of the ring-generator service                       *)
(* (src/ring-generator/app/job_manager.py): the job registry and its       *)
(* bounded admission queue, the worker pool, the cleanup sweeper and the   *)
(* callers of submit / get / cancel / wait_for_completion; and the retry   *)
(* loop of the pipeline a worker runs (core/pipeline.py _run_with_retry),  *)
(* under a specification of its own, RetrySpec.                            *)
(*                                                                         *)
(* The service runs on one asyncio event loop, so every stretch of code    *)
(* between two suspension points is one atomic action here.  Records are   *)
(* Python objects: the registry, a worker and a waiter hold references to  *)
(* them, so records live in a heap and are named by reference.             *)
(***************************************************************************)
EXTENDS Integers, Sequences, FiniteSets, TLC

\* ------------------------------------------------------------------ bounds
\* settings.max_queue_size, scaled down
MaxQueueSize == 2
\* settings.max_job_records, scaled down
MaxJobRecords == 1
\* settings.finished_job_ttl_seconds, in clock ticks
Ttl == 1
\* the values the clock takes, in ticks: enough for a record to outlive Ttl
Times == {0, 1, 2}

Min(a, b) == IF a < b THEN a ELSE b
Max(a, b) == IF a > b THEN a ELSE b

\* ids a caller may pass as job_id or request.request_id
ExplicitIds == {"a", "b"}
\* the ids uuid.uuid4() yields, in the order it yields them
UuidPool == <<"u1", "u2">>
UuidIds == {UuidPool[i] : i \in 1..Len(UuidPool)}
Ids == ExplicitIds \cup UuidIds
\* the worker tasks startup creates (settings.max_concurrent_jobs of them)
Workers == {"w1", "w2"}
\* callers of wait_for_completion
Waiters == {"c1"}

\* ------------------------------------------------------------------ records
None == "None"
NoTime == -1
NoRef == 0
\* the JobRecord objects one run of the model may create: the n-th record
\* created is object n
Refs == {1, 2}

Terminal == {"succeeded", "failed", "cancelled"}

\* a heap slot that holds no object
FreeSlot ==
  [id |-> None, status |-> "free", created_at |-> NoTime, started_at |-> NoTime,
   finished_at |-> NoTime, progress |-> 0, result |-> None, error |-> None,
   done_event |-> FALSE, sets |-> 0]

\* JobRecord(id=_id, request=request, status=queued, created_at=_utc_now())
\* sets counts the calls of done_event.set() on the record (history only)
JobRecord(id, t) ==
  [id |-> id, status |-> "queued", created_at |-> t, started_at |-> NoTime,
   finished_at |-> NoTime, progress |-> 0, result |-> None, error |-> None,
   done_event |-> FALSE, sets |-> 0]

VARIABLES
  jobs,      \* self.jobs: the dict as its entries [id, ref] in insertion order
  heap,      \* the JobRecord objects, by reference
  queue,     \* self.queue: the ids waiting for a worker
  worker,    \* per worker task: where it is suspended and the record it holds
  cleanup,   \* the cleanup task: "none", "running", "stopped"
  waiter,    \* per caller of wait_for_completion
  now,       \* the clock _utc_now() reads
  allocs,    \* how many records submit has created
  reply,     \* outcome of the API call made by the last step, if it was one
  retry      \* the frame of one call of _run_with_retry (core/pipeline.py)

vars == <<jobs, heap, queue, worker, cleanup, waiter, now, allocs, reply, retry>>

\* the job manager's variables
jobVars == <<jobs, heap, queue, worker, cleanup, waiter, now, allocs, reply>>

NoReply == [op |-> "none", id |-> None, res |-> "none"]
Reply(op, id, res) == [op |-> op, id |-> id, res |-> res]

\* ------------------------------------------------------------------ helpers
JobIds == {jobs[i].id : i \in DOMAIN jobs}
HasJob(id) == id \in JobIds
RefIn(js, id) == js[CHOOSE i \in DOMAIN js : js[i].id = id].ref
RefOf(id) == RefIn(jobs, id)

\* done_event.set() on a record
SetDone(rec) == [rec EXCEPT !.done_event = TRUE, !.sets = Min(@ + 1, 2)]

\* references still held by the registry, a worker in flight or a waiter
LiveRefs(js, wk, wt) ==
  {js[i].ref : i \in DOMAIN js}
    \cup {wk[w].rec : w \in {x \in Workers : wk[x].pc = "busy"}}
    \cup {wt[c].rec : c \in {x \in Waiters : wt[x].pc = "waiting"}}

\* objects nothing refers to any more are reclaimed
Collect(h, js, wk, wt) ==
  [r \in DOMAIN h |-> IF r \in LiveRefs(js, wk, wt) THEN h[r] ELSE FreeSlot]

\* full() that lets one id too many in
QueueIsFullOffByOne(q) == IF MaxQueueSize <= 0 THEN FALSE ELSE Len(q) > MaxQueueSize

\* asyncio.Queue(maxsize).full()
QueueIsFull(q) == IF MaxQueueSize <= 0 THEN FALSE ELSE Len(q) >= MaxQueueSize

\* _id = job_id or request.request_id or str(uuid.uuid4())
ResolveId(job_id, request_id, fresh) ==
  IF job_id # None THEN job_id ELSE IF request_id # None THEN request_id ELSE fresh

\* ------------------------------------------------------------------ retry frame
\* money is counted in half dollars, so that $0.5 and $1 are both amounts
Usd(n) == 2 * n
HalfUsd == Usd(1) \div 2

\* the local name result before the first run_blender call has bound it
Unbound == [bound |-> FALSE, success |-> FALSE, run |-> 0]

\* no call of _run_with_retry is in progress
NoFrame ==
  [pc |-> "none", max_retries |-> 0, max_cost_usd |-> 0, spent_so_far |-> 0,
   attempt |-> 0, code |-> 0, result |-> Unbound, retry_log |-> <<>>,
   extra_usage |-> <<>>, cumulative_cost |-> 0, run_calls |-> <<>>, fix_calls |-> <<>>]

\* ------------------------------------------------------------------ Init
Init ==
  /\ jobs = <<>>
  /\ heap = [r \in Refs |-> FreeSlot]
  /\ queue = <<>>
  /\ worker = [w \in Workers |-> [pc |-> "none", rec |-> NoRef]]
  /\ cleanup = "none"
  /\ waiter = [c \in Waiters |-> [pc |-> "idle", id |-> None, rec |-> NoRef]]
  /\ now = 0
  /\ allocs = 0
  /\ reply = NoReply
  /\ retry = NoFrame

\* ------------------------------------------------------------------ clock
Tick ==
  /\ now + 1 \in Times
  /\ now' = now + 1
  /\ reply' = NoReply
  /\ UNCHANGED <<jobs, heap, queue, worker, cleanup, waiter, allocs, retry>>

\* ------------------------------------------------------------------ startup
Startup ==
  /\ cleanup = "none"
  /\ worker' = [w \in Workers |-> [pc |-> "idle", rec |-> NoRef]]
  /\ cleanup' = "running"
  /\ reply' = NoReply
  /\ UNCHANGED <<jobs, heap, queue, waiter, now, allocs, retry>>

\* ------------------------------------------------------------------ submit
SubmitCreate(_id) ==
  /\ allocs + 1 \in DOMAIN heap
  /\ heap' = [heap EXCEPT ![allocs + 1] = JobRecord(_id, now)]
  /\ jobs' = Append(jobs, [id |-> _id, ref |-> allocs + 1])
  /\ queue' = Append(queue, _id)
  /\ allocs' = allocs + 1
  /\ reply' = Reply("submit", _id, "ok")

\* submit without the test "_id in self.jobs"
SubmitOutcomeNoIdCheck(q, js, _id) ==
  IF QueueIsFull(q) THEN "QueueFull" ELSE "ok"

\* submit that looks for the id among the queued ids instead of the registry
SubmitOutcomeQueuedOnly(q, js, _id) ==
  IF QueueIsFull(q) THEN "QueueFull"
  ELSE IF \E i \in DOMAIN q : q[i] = _id THEN "DuplicateJobId"
  ELSE "ok"

\* the two checks submit makes under the lock, in the order it makes them
SubmitOutcome(q, js, _id) ==
  IF QueueIsFull(q) THEN "QueueFull"
  ELSE IF \E i \in DOMAIN js : js[i].id = _id THEN "DuplicateJobId"
  ELSE "ok"

\* the lock is free whenever submit asks for it and the body never suspends,
\* so a submit is one step
Submit(job_id, request_id) ==
  LET _id == ResolveId(job_id, request_id, UuidPool[Min(allocs + 1, Len(UuidPool))])
  IN /\ IF SubmitOutcome(queue, jobs, _id) = "ok"
          THEN SubmitCreate(_id)
          ELSE /\ reply' = Reply("submit", _id, SubmitOutcome(queue, jobs, _id))
               /\ UNCHANGED <<jobs, heap, queue, allocs>>
     /\ UNCHANGED <<worker, cleanup, waiter, now, retry>>

\* ------------------------------------------------------------------ cancel
\* cancel that forgets done_event.set()
CancelRecordNoSignal(rec, t) ==
  IF rec.status = "queued"
    THEN [rec EXCEPT !.status = "cancelled", !.finished_at = t]
    ELSE rec

\* cancel that also cancels a running record
CancelRecordForce(rec, t) ==
  IF rec.status \in {"queued", "running"}
    THEN SetDone([rec EXCEPT !.status = "cancelled", !.finished_at = t])
    ELSE rec

\* cancel that treats a cancelled record like a queued one
CancelRecordRestamp(rec, t) ==
  IF rec.status \in {"queued", "cancelled"}
    THEN SetDone([rec EXCEPT !.status = "cancelled", !.finished_at = t])
    ELSE rec

\* the record after cancel: only a queued record is written
CancelRecord(rec, t) ==
  IF rec.status = "queued"
    THEN SetDone([rec EXCEPT !.status = "cancelled", !.finished_at = t])
    ELSE rec

\* what cancel returns or raises
CancelResult(rec) ==
  IF rec.status = "queued" THEN "ok"
  ELSE IF rec.status \in Terminal THEN "ok"
  ELSE "CannotCancelRunning"

\* a cancel that also takes the id out of the queue
CancelDequeues(id) ==
  /\ IF ~HasJob(id)
       THEN /\ reply' = Reply("cancel", id, "JobNotFound")
            /\ heap' = heap
            /\ queue' = queue
       ELSE /\ reply' = Reply("cancel", id, CancelResult(heap[RefOf(id)]))
            /\ heap' = [heap EXCEPT ![RefOf(id)] = CancelRecord(@, now)]
            /\ queue' = IF heap[RefOf(id)].status = "queued"
                           THEN SelectSeq(queue, LAMBDA x : x # id)
                           ELSE queue
  /\ UNCHANGED <<jobs, worker, cleanup, waiter, now, allocs, retry>>

Cancel(id) ==
  /\ IF ~HasJob(id)
       THEN /\ reply' = Reply("cancel", id, "JobNotFound")
            /\ heap' = heap
       ELSE /\ reply' = Reply("cancel", id, CancelResult(heap[RefOf(id)]))
            /\ heap' = [heap EXCEPT ![RefOf(id)] = CancelRecord(@, now)]
  /\ UNCHANGED <<jobs, queue, worker, cleanup, waiter, now, allocs, retry>>

\* ------------------------------------------------------------------ workers
\* a worker that skips only the ids that have no record
SkippedOnlyMissing(js, h, id) == \A i \in DOMAIN js : js[i].id # id

\* the worker's test "not record or record.status == cancelled": skip the id
Skipped(js, h, id) ==
  \/ \A i \in DOMAIN js : js[i].id # id
  \/ h[RefIn(js, id)].status = "cancelled"

\* a worker that, after skipping an id, throws the id behind it away as well
RECURSIVE NextJobLosesOne(_, _, _)
NextJobLosesOne(q, js, h) ==
  IF q = <<>> THEN <<>>
  ELSE IF Skipped(js, h, Head(q))
         THEN IF Tail(q) = <<>> THEN <<>> ELSE NextJobLosesOne(Tail(Tail(q)), js, h)
  ELSE q

\* queue.get() does not suspend while the queue holds an id, so a worker that
\* skips an id takes the next one in the same step: what is left of the queue
\* once the leading skipped ids are gone
RECURSIVE NextJob(_, _, _)
NextJob(q, js, h) ==
  IF q = <<>> THEN <<>>
  ELSE IF Skipped(js, h, Head(q)) THEN NextJob(Tail(q), js, h)
  ELSE q

\* record.status = running; started_at = now; progress = 5
StartRecord(rec, t) ==
  [rec EXCEPT !.status = "running", !.started_at = t, !.progress = 5]

\* a finally that stamps the record and forgets to set the event
FinallyNoSignal(rec, t) == [rec EXCEPT !.finished_at = t]

\* the inner finally: finished_at = now; done_event.set()
Finally(rec, t) == SetDone([rec EXCEPT !.finished_at = t])

\* a worker that does not look at result.success
FinishRecordIgnoresFlag(rec, outcome, t) ==
  Finally(
    CASE outcome \in {"success", "failure"} ->
           [rec EXCEPT !.result = IF outcome = "success" THEN "success_result"
                                  ELSE "failure_result",
                       !.status = "succeeded", !.progress = 100]
      [] outcome = "raise" ->
           [rec EXCEPT !.status = "failed", !.error = "exception", !.progress = 100],
    t)

\* what the worker writes when generate_ring returns or raises
FinishRecord(rec, outcome, t) ==
  Finally(
    CASE outcome = "success" ->
           [rec EXCEPT !.result = "success_result", !.status = "succeeded", !.progress = 100]
      [] outcome = "failure" ->
           [rec EXCEPT !.result = "failure_result", !.status = "failed",
                       !.error = "failed_after_retries", !.progress = 100]
      [] outcome = "raise" ->
           [rec EXCEPT !.status = "failed", !.error = "exception", !.progress = 100],
    t)

Outcomes == {"success", "failure", "raise"}

\* the worker loop from queue.get() up to its next suspension: it either
\* starts the next runnable job and awaits generate_ring, or finds the queue
\* empty and waits in queue.get()
WorkerRun(w, q, h) ==
  LET rest == NextJob(q, jobs, h)
      wk == IF rest = <<>>
              THEN [worker EXCEPT ![w] = [pc |-> "idle", rec |-> NoRef]]
              ELSE [worker EXCEPT ![w] = [pc |-> "busy", rec |-> RefOf(Head(rest))]]
      h2 == IF rest = <<>> THEN h
            ELSE [h EXCEPT ![RefOf(Head(rest))] = StartRecord(@, now)]
  IN /\ queue' = IF rest = <<>> THEN <<>> ELSE Tail(rest)
     /\ worker' = wk
     /\ heap' = Collect(h2, jobs, wk, waiter)
     /\ reply' = NoReply
     /\ UNCHANGED <<jobs, cleanup, waiter, now, allocs, retry>>

\* a worker that starts a job only while no other worker runs one
WorkerTakeSerial(w) ==
  /\ worker[w].pc = "idle"
  /\ queue # <<>>
  /\ \A v \in Workers : worker[v].pc # "busy"
  /\ WorkerRun(w, queue, heap)

\* a worker waiting in queue.get() is woken by a put
WorkerTake(w) ==
  /\ worker[w].pc = "idle"
  /\ queue # <<>>
  /\ WorkerRun(w, queue, heap)

\* a worker task that an exception of the operation brings down
WorkerFinishStops(w, outcome) ==
  /\ worker[w].pc = "busy"
  /\ IF outcome = "raise"
       THEN LET wk == [worker EXCEPT ![w] = [pc |-> "stopped", rec |-> NoRef]]
            IN /\ worker' = wk
               /\ heap' = Collect([heap EXCEPT ![worker[w].rec] =
                                     FinishRecord(@, outcome, now)], jobs, wk, waiter)
               /\ reply' = NoReply
               /\ UNCHANGED <<jobs, queue, cleanup, waiter, now, allocs, retry>>
       ELSE WorkerRun(w, queue, [heap EXCEPT ![worker[w].rec] = FinishRecord(@, outcome, now)])

\* generate_ring returns or raises; the worker stores the outcome and goes on
WorkerFinish(w, outcome) ==
  /\ worker[w].pc = "busy"
  /\ WorkerRun(w, queue, [heap EXCEPT ![worker[w].rec] = FinishRecord(@, outcome, now)])

\* ------------------------------------------------------------------ shutdown
\* task.cancel() raises CancelledError in every worker at the await it is
\* suspended on.  CancelledError is no Exception, so for a worker awaiting
\* generate_ring only the inner finally runs, once per worker holding the record
Holders(r) == {w \in Workers : worker[w].pc = "busy" /\ worker[w].rec = r}

CancelledInFlight(rec, n, t) ==
  IF n = 0 THEN rec
  ELSE IF n = 1 THEN Finally(rec, t)
  ELSE Finally(Finally(rec, t), t)

\* a shutdown that cancels the cleanup task and leaves the workers running
ShutdownSweeperOnly ==
  /\ cleanup = "running"
  /\ cleanup' = "stopped"
  /\ reply' = NoReply
  /\ UNCHANGED <<jobs, heap, queue, worker, waiter, now, allocs, retry>>

Shutdown ==
  LET wk == [w \in Workers |-> [pc |-> "stopped", rec |-> NoRef]]
      h1 == [r \in DOMAIN heap |-> CancelledInFlight(heap[r], Cardinality(Holders(r)), now)]
  IN /\ cleanup = "running"
     /\ worker' = wk
     /\ cleanup' = "stopped"
     /\ heap' = Collect(h1, jobs, wk, waiter)
     /\ reply' = NoReply
     /\ UNCHANGED <<jobs, queue, waiter, now, allocs, retry>>

\* ------------------------------------------------------------------ sweeper
\* a sweeper that takes a running record for a finished one
IsTerminalOrRunning(rec) == rec.status \in Terminal \cup {"running"}

IsTerminal(rec) == rec.status \in Terminal

\* a first pass that lets a record live one tick longer
ExpiredLate(rec, t) ==
  /\ IsTerminal(rec)
  /\ rec.finished_at # NoTime
  /\ t - rec.finished_at > Ttl + 1

\* first pass: terminal, finished_at set, now - finished_at > ttl
Expired(rec, t) ==
  /\ IsTerminal(rec)
  /\ rec.finished_at # NoTime
  /\ t - rec.finished_at > Ttl

DropExpired(js, h, t) == SelectSeq(js, LAMBDA e : ~Expired(h[e.ref], t))

\* sort key: finished_at or created_at
SortKey(rec) == IF rec.finished_at # NoTime THEN rec.finished_at ELSE rec.created_at

\* a sort that puts the newest record first
RankNewestFirst(js, h, i) ==
  Cardinality({k \in DOMAIN js :
     /\ IsTerminal(h[js[k].ref])
     /\ \/ SortKey(h[js[k].ref]) > SortKey(h[js[i].ref])
        \/ SortKey(h[js[k].ref]) = SortKey(h[js[i].ref]) /\ k < i})

\* place of entry i of js in sorted(completed_ids, key): sorted is stable, so
\* ties keep the dict's order
Rank(js, h, i) ==
  Cardinality({k \in DOMAIN js :
     /\ IsTerminal(h[js[k].ref])
     /\ \/ SortKey(h[js[k].ref]) < SortKey(h[js[i].ref])
        \/ SortKey(h[js[k].ref]) = SortKey(h[js[i].ref]) /\ k < i})

\* second pass: the overflow oldest terminal records go
Overflow(js, h) ==
  Max(0, Cardinality({k \in DOMAIN js : IsTerminal(h[js[k].ref])}) - MaxJobRecords)

Evicted(js, h) ==
  {js[k].id : k \in {i \in DOMAIN js : IsTerminal(h[js[i].ref]) /\ Rank(js, h, i) < Overflow(js, h)}}

DropOverflow(js, h) == SelectSeq(js, LAMBDA e : e.id \notin Evicted(js, h))

\* one tick of _cleanup_loop
Sweep ==
  /\ cleanup = "running"
  /\ jobs' = DropOverflow(DropExpired(jobs, heap, now), heap)
  /\ heap' = Collect(heap, jobs', worker, waiter)
  /\ reply' = NoReply
  /\ UNCHANGED <<queue, worker, cleanup, waiter, now, allocs, retry>>

\* ------------------------------------------------------------------ get
\* get(job_id): the record, or JobNotFoundError when the id is no key of jobs
GetResult(js, id) == IF \E i \in DOMAIN js : js[i].id = id THEN "ok" ELSE "JobNotFound"

\* ------------------------------------------------------------------ waiters
Idle == [pc |-> "idle", id |-> None, rec |-> NoRef]

\* record = await self.get(job_id), then wait on record.done_event
WaitBegin(c, id) ==
  /\ waiter[c].pc = "idle"
  /\ IF HasJob(id)
       THEN /\ waiter' = [waiter EXCEPT ![c] = [pc |-> "waiting", id |-> id, rec |-> RefOf(id)]]
            /\ reply' = NoReply
       ELSE /\ waiter' = waiter
            /\ reply' = Reply("wait", id, "JobNotFound")
  /\ UNCHANGED <<jobs, heap, queue, worker, cleanup, now, allocs, retry>>

\* what the second lookup, return await self.get(job_id), yields
WaitResult(js, h, id) ==
  IF \E i \in DOMAIN js : js[i].id = id THEN h[RefIn(js, id)].status ELSE "JobNotFound"

\* the event is set and the waiter resumes
WaitReturn(c) ==
  LET wt == [waiter EXCEPT ![c] = Idle]
  IN /\ waiter[c].pc = "waiting"
     /\ heap[waiter[c].rec].done_event
     /\ waiter' = wt
     /\ reply' = Reply("wait", waiter[c].id, WaitResult(jobs, heap, waiter[c].id))
     /\ heap' = Collect(heap, jobs, worker, wt)
     /\ UNCHANGED <<jobs, queue, worker, cleanup, now, allocs, retry>>

\* a timeout that marks the job failed
WaitTimeoutCancels(c) ==
  LET wt == [waiter EXCEPT ![c] = Idle]
  IN /\ waiter[c].pc = "waiting"
     /\ ~heap[waiter[c].rec].done_event
     /\ waiter' = wt
     /\ reply' = Reply("wait", waiter[c].id, "WaitTimeout")
     /\ heap' = Collect([heap EXCEPT ![waiter[c].rec] =
                            SetDone([@ EXCEPT !.status = "failed", !.finished_at = now])],
                        jobs, worker, wt)
     /\ UNCHANGED <<jobs, queue, worker, cleanup, now, allocs, retry>>

\* asyncio.TimeoutError before the event is set
WaitTimeout(c) ==
  LET wt == [waiter EXCEPT ![c] = Idle]
  IN /\ waiter[c].pc = "waiting"
     /\ ~heap[waiter[c].rec].done_event
     /\ waiter' = wt
     /\ reply' = Reply("wait", waiter[c].id, "WaitTimeout")
     /\ heap' = Collect(heap, jobs, worker, wt)
     /\ UNCHANGED <<jobs, queue, worker, cleanup, now, allocs, retry>>

\* ------------------------------------------------------------------ Next
\* submit(request, job_id): the job_id and the request.request_id a caller gives
JobIdArgs == {None, "a"}
RequestIdArgs == {None, "b"}

Next ==
  \/ Tick
  \/ Startup
  \/ Shutdown
  \/ \E j \in JobIdArgs, q \in RequestIdArgs : Submit(j, q)
  \/ \E id \in Ids : Cancel(id)
  \/ \E w \in Workers : WorkerTake(w)
  \/ \E w \in Workers, o \in Outcomes : WorkerFinish(w, o)
  \/ Sweep
  \/ \E c \in Waiters, id \in Ids : WaitBegin(c, id)
  \/ \E c \in Waiters : WaitReturn(c)
  \/ \E c \in Waiters : WaitTimeout(c)

Spec == Init /\ [][Next]_vars

\* ------------------------------------------------------------------ long runs
\* the job manager without callers of wait_for_completion, on a clock that
\* runs one tick past Times: long enough for a record to be cancelled,
\* evicted after the TTL, submitted again and then run at two different times
LateTimes == {3}

LateTick ==
  /\ now + 1 \in LateTimes
  /\ now' = now + 1
  /\ reply' = NoReply
  /\ UNCHANGED <<jobs, heap, queue, worker, cleanup, waiter, allocs, retry>>

LongNext ==
  \/ Tick
  \/ LateTick
  \/ Startup
  \/ Shutdown
  \/ \E j \in JobIdArgs, q \in RequestIdArgs : Submit(j, q)
  \/ \E id \in Ids : Cancel(id)
  \/ \E w \in Workers : WorkerTake(w)
  \/ \E w \in Workers, o \in Outcomes : WorkerFinish(w, o)
  \/ Sweep

LongSpec == Init /\ [][LongNext]_vars

\* ------------------------------------------------------------------ wider runs
\* the job manager with room for one more record and one more queued id, and
\* without shutdown, callers of wait_for_completion and generated ids: enough
\* for an id to be cancelled, evicted and submitted again behind another job
WideRefs == Refs \cup {3}
WideQueueSize == MaxQueueSize + 1

WideInit ==
  /\ jobs = <<>>
  /\ heap = [r \in WideRefs |-> FreeSlot]
  /\ queue = <<>>
  /\ worker = [w \in Workers |-> [pc |-> "none", rec |-> NoRef]]
  /\ cleanup = "none"
  /\ waiter = [c \in Waiters |-> [pc |-> "idle", id |-> None, rec |-> NoRef]]
  /\ now = 0
  /\ allocs = 0
  /\ reply = NoReply
  /\ retry = NoFrame

\* asyncio.Queue(maxsize).full() with the larger max_queue_size
WideQueueIsFull(q) == Len(q) >= WideQueueSize

WideSubmitOutcome(q, js, _id) ==
  IF WideQueueIsFull(q) THEN "QueueFull"
  ELSE IF \E i \in DOMAIN js : js[i].id = _id THEN "DuplicateJobId"
  ELSE "ok"

WideSubmit(job_id, request_id) ==
  LET _id == ResolveId(job_id, request_id, UuidPool[Min(allocs + 1, Len(UuidPool))])
  IN /\ IF WideSubmitOutcome(queue, jobs, _id) = "ok"
          THEN SubmitCreate(_id)
          ELSE /\ reply' = Reply("submit", _id, WideSubmitOutcome(queue, jobs, _id))
               /\ UNCHANGED <<jobs, heap, queue, allocs>>
     /\ UNCHANGED <<worker, cleanup, waiter, now, retry>>

\* callers name their jobs: submit(request, job_id) with one of the two given
WideSubmitArgs == {<<"a", None>>, <<None, "b">>}

WideNext ==
  \/ Tick
  \/ Startup
  \/ \E args \in WideSubmitArgs : WideSubmit(args[1], args[2])
  \/ \E id \in ExplicitIds : Cancel(id)
  \/ \E w \in Workers : WorkerTake(w)
  \/ \E w \in Workers, o \in Outcomes : WorkerFinish(w, o)
  \/ Sweep

WideSpec == WideInit /\ [][WideNext]_vars

\* ------------------------------------------------------------------ fair runs
\* the job manager while it is not shut down, with callers that name their
\* jobs and wait for job "a" without a timeout.  The event loop runs every
\* task that is ready: a worker waiting in queue.get() is resumed while the
\* queue holds an id, a waiter is resumed once its event is set; and every
\* call of generate_ring is taken to return or raise

\* the ways a call of generate_ring ends: it returns or it raises
LiveOutcomes == {"success", "raise"}

LiveNext ==
  \/ Tick
  \/ Startup
  \/ \E args \in WideSubmitArgs : Submit(args[1], args[2])
  \/ \E id \in ExplicitIds : Cancel(id)
  \/ \E w \in Workers : WorkerTake(w)
  \/ \E w \in Workers, o \in LiveOutcomes : WorkerFinish(w, o)
  \/ Sweep
  \/ \E c \in Waiters : WaitBegin(c, "a")
  \/ \E c \in Waiters : WaitReturn(c)

LiveSpec ==
  /\ Init
  /\ [][LiveNext]_vars
  /\ \A w \in Workers : WF_vars(WorkerTake(w))
  /\ \A w \in Workers : WF_vars(\E o \in LiveOutcomes : WorkerFinish(w, o))
  /\ \A c \in Waiters : WF_vars(WaitReturn(c))

\* ------------------------------------------------------------------ retry loop
\* _run_with_retry of core/pipeline.py (core/edit_pipeline.py of the editor
\* has the same loop).  The frame keeps the function's locals; run_calls and
\* fix_calls record the calls made: the code each run_blender call was given
\* and the attempt after which each call_llm repair was asked for.  The code
\* is a version number: 0 is initial_code, every repair returns the next one.

\* largest max_retries a caller passes
MaxRetries == 3
\* largest max_cost_usd a caller passes, in half dollars
MaxCeiling == 10
\* largest spent_so_far, in half dollars
MaxSeed == 2
\* largest cost of one repair, in half dollars
MaxFixCost == 2

\* request.max_retries is any integer
RetryArgs == -1..MaxRetries
CeilingArgs == 0..MaxCeiling
SeedArgs == 0..MaxSeed
FixCosts == 0..MaxFixCost

\* entries numbered from 0
RetryEntryZeroBased(attempt, success, diagnostics) ==
  [attempt |-> attempt - 1, success |-> success,
   error_text |-> IF success \/ ~diagnostics THEN "" ELSE "excerpt"]

\* RetryEntry(attempt, success, error_text): the excerpt stays "" on success
\* and is cut from the diagnostics of a failed run
RetryEntry(attempt, success, diagnostics) ==
  [attempt |-> attempt, success |-> success,
   error_text |-> IF success \/ ~diagnostics THEN "" ELSE "excerpt"]

\* a repair asked for after the last attempt as well
MayRepairAfterLast(attempt, max_retries) == attempt <= max_retries

\* if attempt < max_retries
MayRepair(attempt, max_retries) == attempt < max_retries

\* if cumulative_cost >= max_cost_usd: break
BudgetExhausted(cumulative_cost, max_cost_usd) == cumulative_cost >= max_cost_usd

\* return code, result, retry_log, extra_usage after the loop: reading result
\* raises UnboundLocalError when no iteration has bound it
Return(f) ==
  IF f.result.bound THEN [f EXCEPT !.pc = "returned"] ELSE [f EXCEPT !.pc = "raised"]

\* a range that runs one attempt past max_retries
NextAttemptOneMore(f) ==
  IF f.attempt + 1 <= f.max_retries + 1
    THEN [f EXCEPT !.pc = "run", !.attempt = @ + 1, !.run_calls = Append(@, f.code)]
    ELSE Return(f)

\* the for statement takes the next attempt of range(1, max_retries + 1) and
\* awaits run_blender(code), or finds the range used up
NextAttempt(f) ==
  IF f.attempt + 1 <= f.max_retries
    THEN [f EXCEPT !.pc = "run", !.attempt = @ + 1, !.run_calls = Append(@, f.code)]
    ELSE Return(f)

\* the call, up to the first await
RetryCall(max_retries, max_cost_usd, spent_so_far) ==
  /\ retry.pc = "none"
  /\ retry' = NextAttempt([NoFrame EXCEPT !.max_retries = max_retries,
                             !.max_cost_usd = max_cost_usd,
                             !.spent_so_far = spent_so_far,
                             !.cumulative_cost = spent_so_far])
  /\ UNCHANGED jobVars

\* what follows a failed run: a repair call, or the end of the loop
AfterFailure(f) ==
  IF MayRepair(f.attempt, f.max_retries)
    THEN IF BudgetExhausted(f.cumulative_cost, f.max_cost_usd)
           THEN Return(f)
           ELSE [f EXCEPT !.pc = "fix", !.fix_calls = Append(@, f.attempt)]
    ELSE NextAttempt(f)

\* a loop that logs a successful run and goes on to the next attempt
RunReturnsKeepsGoing(success, diagnostics) ==
  LET f == [retry EXCEPT
              !.result = [bound |-> TRUE, success |-> success, run |-> Len(retry.run_calls)],
              !.retry_log = Append(@, RetryEntry(retry.attempt, success, diagnostics))]
  IN /\ retry.pc = "run"
     /\ retry' = IF success THEN NextAttempt(f) ELSE AfterFailure(f)
     /\ UNCHANGED jobVars

\* run_blender returns a BlenderResult
RunReturns(success, diagnostics) ==
  LET f == [retry EXCEPT
              !.result = [bound |-> TRUE, success |-> success, run |-> Len(retry.run_calls)],
              !.retry_log = Append(@, RetryEntry(retry.attempt, success, diagnostics))]
  IN /\ retry.pc = "run"
     /\ retry' = IF success THEN [f EXCEPT !.pc = "returned"] ELSE AfterFailure(f)
     /\ UNCHANGED jobVars

\* a repair whose cost is logged but not added to cumulative_cost
FixReturnsUncounted(cost_usd) ==
  /\ retry.pc = "fix"
  /\ retry' = NextAttempt([retry EXCEPT !.code = @ + 1,
                             !.extra_usage = Append(@, cost_usd)])
  /\ UNCHANGED jobVars

\* call_llm returns the repaired code and its usage
FixReturns(cost_usd) ==
  /\ retry.pc = "fix"
  /\ retry' = NextAttempt([retry EXCEPT !.code = @ + 1,
                             !.extra_usage = Append(@, cost_usd),
                             !.cumulative_cost = @ + cost_usd])
  /\ UNCHANGED jobVars

\* a loop that takes a failed repair for a reason to run the same code again
FixRaisesRetries ==
  /\ retry.pc = "fix"
  /\ retry' = NextAttempt(retry)
  /\ UNCHANGED jobVars

\* build_fix_prompt or call_llm raises: except Exception: break
FixRaises ==
  /\ retry.pc = "fix"
  /\ retry' = Return(retry)
  /\ UNCHANGED jobVars

RetryNext ==
  \/ \E m \in RetryArgs, c \in CeilingArgs, s \in SeedArgs : RetryCall(m, c, s)
  \/ \E ok \in BOOLEAN, d \in BOOLEAN : RunReturns(ok, d)
  \/ \E c \in FixCosts : FixReturns(c)
  \/ FixRaises

RetrySpec == Init /\ [][RetryNext]_vars

\* ------------------------------------------------------------------ progress
\* the callback _make_progress_callback binds to a record, as generate_ring
\* calls it while a worker awaits it; int() cuts the quotient, which is never
\* negative here
ProgressOf(stage, attempt, max_attempts, old) ==
  CASE stage = "llm_started" -> 5
    [] stage = "llm_done" -> 18
    [] stage \in {"blender", "fixing"} ->
         20 + ((60 * (attempt - 1)) \div Max(max_attempts, 1))
    [] OTHER -> old

\* the calls that end a step of the operation: blender for every attempt and
\* fixing for every attempt but the last.  llm_started is called before the
\* first await, in the step that starts the record, and llm_done in the step
\* that goes on to call blender for attempt 1, so neither value outlives its
\* step
CallbackCalls ==
  {<<"blender", a, m>> : a \in 1..MaxRetries, m \in 1..MaxRetries}
    \cup {<<"fixing", a, m>> : a \in 1..MaxRetries, m \in 1..MaxRetries}

\* of these, the ones the retry loop can make: attempt <= max_attempts for
\* blender, attempt < max_attempts for fixing
LoopCalls ==
  {c \in CallbackCalls : IF c[1] = "blender" THEN c[2] <= c[3] ELSE c[2] < c[3]}

\* one call of the callback by the operation worker w awaits
ProgressCallback(w, call) ==
  /\ worker[w].pc = "busy"
  /\ heap' = [heap EXCEPT ![worker[w].rec].progress =
                ProgressOf(call[1], call[2], call[3], @)]
  /\ reply' = NoReply
  /\ UNCHANGED <<jobs, queue, worker, cleanup, waiter, now, allocs, retry>>

\* the job manager without callers of wait_for_completion, with the progress
\* reports of the running operations
ProgressNext ==
  \/ Tick
  \/ Startup
  \/ Shutdown
  \/ \E j \in JobIdArgs, q \in RequestIdArgs : Submit(j, q)
  \/ \E id \in Ids : Cancel(id)
  \/ \E w \in Workers : WorkerTake(w)
  \/ \E w \in Workers, o \in Outcomes : WorkerFinish(w, o)
  \/ Sweep
  \/ \E w \in Workers, call \in LoopCalls : ProgressCallback(w, call)

ProgressSpec == Init /\ [][ProgressNext]_vars

\* ------------------------------------------------------------------ validator
\* ValidateJobManager of ring-validator/app/job_manager.py: startup, submit,
\* cancel and the head of the worker loop are those of the generator, line for
\* line; the worker calls validate_ring and stores what comes of it

\* the parameters of validate_ring without a default, and those with one
ValidateRingRequired ==
  {"request", "master_prompt", "sessions_dir", "artifact_cache_dir",
   "blender_executable", "blender_timeout", "anthropic_api_key",
   "gemini_api_key", "gemini_model"}
ValidateRingOptional == {"progress_callback"}

\* the keyword arguments the worker passes to validate_ring
WorkerKeywords ==
  {"request", "master_prompt", "sessions_dir", "blender_executable",
   "blender_timeout", "anthropic_api_key", "gemini_api_key", "gemini_model",
   "progress_callback"}

\* Python binds a call by keywords when every parameter without a default is
\* given and every keyword names a parameter; otherwise the call raises
\* TypeError before the function body runs
Binds(required, optional, keywords) ==
  /\ required \subseteq keywords
  /\ keywords \subseteq required \cup optional

\* what the steps of the pipeline do once the body runs: the verdict is valid,
\* the verdict is invalid, or a step raises
PipelineOutcomes == {"valid", "invalid", "raise"}

\* what the worker sees of the call
ValidateRing(steps) ==
  IF Binds(ValidateRingRequired, ValidateRingOptional, WorkerKeywords)
    THEN steps
    ELSE "raise"

\* record.result = result; status succeeded; except Exception: status failed
\* and error; finally finished_at and done_event.set()
ValidateRecord(rec, outcome, t) ==
  Finally(
    IF outcome = "raise"
      THEN [rec EXCEPT !.status = "failed", !.error = "exception", !.progress = 100]
      ELSE [rec EXCEPT !.result = outcome, !.status = "succeeded", !.progress = 100],
    t)

\* the call of validate_ring ends; the worker stores the outcome and goes on
ValidateFinish(w, steps) ==
  /\ worker[w].pc = "busy"
  /\ WorkerRun(w, queue, [heap EXCEPT ![worker[w].rec] =
                            ValidateRecord(@, ValidateRing(steps), now)])

ValidatorNext ==
  \/ Tick
  \/ Startup
  \/ \E j \in JobIdArgs, q \in RequestIdArgs : Submit(j, q)
  \/ \E id \in Ids : Cancel(id)
  \/ \E w \in Workers : WorkerTake(w)
  \/ \E w \in Workers, steps \in PipelineOutcomes : ValidateFinish(w, steps)

ValidatorSpec == Init /\ [][ValidatorNext]_vars

\* ------------------------------------------------------------------ claims
\* records the registry or a worker in flight refers to
Held(r) ==
  \/ \E i \in DOMAIN jobs : jobs[i].ref = r
  \/ \E w \in Workers : worker[w].pc = "busy" /\ worker[w].rec = r

\* the step is cancel(id) on a record of the registry whose status is in S
CancelOn(id, S) ==
  /\ reply'.op = "cancel"
  /\ reply'.id = id
  /\ id \in JobIds
  /\ heap[RefOf(id)].status \in S

\* C1: a submit made while the queue holds max_queue_size ids fails with the
\* queue-full error and changes nothing: no record is created, the queue is
\* unchanged and every record keeps its status
C1_QueueFullRejects ==
  [][(reply'.op = "submit" /\ Len(queue) >= MaxQueueSize) =>
        /\ reply'.res = "QueueFull"
        /\ UNCHANGED <<jobs, heap, queue, worker, waiter>>]_vars

C1_Witness ==
  /\ reply.op = "submit"
  /\ reply.res = "QueueFull"
  /\ Len(queue) = MaxQueueSize
  /\ \A i \in DOMAIN queue : HasJob(queue[i]) /\ heap[RefOf(queue[i])].status = "queued"

\* C2 as stated: a submit whose resolved id is a key of the registry fails
\* with the duplicate-id error and leaves registry, records and queue alone
C2_DuplicateRejected ==
  [][(reply'.op = "submit" /\ reply'.id \in JobIds) =>
        /\ reply'.res = "DuplicateJobId"
        /\ UNCHANGED <<jobs, heap, queue>>]_vars

\* C2 amended: a submit whose resolved id is a key of the registry fails and
\* leaves registry, records and queue alone; the error is the duplicate-id
\* error when the queue is not full and the queue-full error when it is
C2_DuplicateRejectedUnlessFull ==
  [][(reply'.op = "submit" /\ reply'.id \in JobIds) =>
        /\ reply'.res = IF Len(queue) >= MaxQueueSize THEN "QueueFull" ELSE "DuplicateJobId"
        /\ UNCHANGED <<jobs, heap, queue>>]_vars

C2_Witness ==
  /\ reply.op = "submit"
  /\ reply.res = "DuplicateJobId"
  /\ HasJob(reply.id)
  /\ heap[RefOf(reply.id)].status = "succeeded"
  /\ \A i \in DOMAIN queue : queue[i] # reply.id

\* C3: the queue never holds more than max_queue_size ids, the registry never
\* holds an id twice, and a submit succeeds only from a state where its id is
\* absent and the queue has room, adding one record and one queue entry
C3_SubmitAtomic ==
  /\ [](/\ Len(queue) <= MaxQueueSize
        /\ \A i, j \in DOMAIN jobs : jobs[i].id = jobs[j].id => i = j)
  /\ [][(reply'.op = "submit" /\ reply'.res = "ok") =>
          /\ reply'.id \notin JobIds
          /\ Len(queue) < MaxQueueSize
          /\ queue' = Append(queue, reply'.id)
          /\ Len(jobs') = Len(jobs) + 1
          /\ jobs'[Len(jobs')].id = reply'.id]_vars

C3_Witness ==
  /\ reply.op = "submit"
  /\ reply.res = "ok"
  /\ Len(queue) = MaxQueueSize
  /\ Len(jobs) = 1
  /\ cleanup = "running"

\* C4: cancel on a queued record sets status cancelled, finished_at and the
\* completion signal and returns the record; every waiter blocked on that
\* record is then free to return and its lookup yields the cancelled record,
\* with no worker or queue step involved
C4_CancelQueued ==
  [][\A id \in Ids : CancelOn(id, {"queued"}) =>
        /\ reply'.res = "ok"
        /\ heap'[RefOf(id)] = [heap[RefOf(id)] EXCEPT !.status = "cancelled",
                                 !.finished_at = now, !.done_event = TRUE, !.sets = 1]
        /\ UNCHANGED <<jobs, queue, worker, waiter>>
        /\ \A c \in Waiters :
             (waiter[c].pc = "waiting" /\ waiter[c].rec = RefOf(id)) =>
               /\ heap'[waiter'[c].rec].done_event
               /\ WaitResult(jobs', heap', waiter'[c].id) = "cancelled"]_vars

C4_Witness ==
  /\ reply.op = "cancel"
  /\ reply.res = "ok"
  /\ \E c \in Waiters :
       /\ waiter[c].pc = "waiting"
       /\ waiter[c].id = reply.id
       /\ heap[waiter[c].rec].status = "cancelled"
       /\ heap[waiter[c].rec].done_event
  /\ \A w \in Workers : worker[w].pc # "idle"

\* C5: cancel on a running record fails with the cannot-cancel-running error
\* and changes no record, nor the registry, the queue or the worker running
\* the operation
C5_CancelRunning ==
  [][\A id \in Ids : CancelOn(id, {"running"}) =>
        /\ reply'.res = "CannotCancelRunning"
        /\ UNCHANGED <<jobs, heap, queue, worker, waiter>>]_vars

C5_Witness ==
  /\ reply.op = "cancel"
  /\ reply.res = "CannotCancelRunning"
  /\ \E w \in Workers :
       /\ worker[w].pc = "busy"
       /\ HasJob(reply.id)
       /\ worker[w].rec = RefOf(reply.id)
       /\ heap[worker[w].rec].status = "running"
       /\ ~heap[worker[w].rec].done_event

\* C6: cancel on a succeeded, failed or cancelled record returns it and
\* changes no field of it (finished_at is not rewritten), nor anything else
C6_CancelTerminal ==
  [][\A id \in Ids : CancelOn(id, Terminal) =>
        /\ reply'.res = "ok"
        /\ UNCHANGED <<jobs, heap, queue, worker, waiter>>]_vars

C6_Witness ==
  /\ reply.op = "cancel"
  /\ reply.res = "ok"
  /\ HasJob(reply.id)
  /\ heap[RefOf(reply.id)].status = "cancelled"
  /\ heap[RefOf(reply.id)].finished_at < now

\* C7: a step of wait_for_completion (begin, return or timeout) changes no
\* record the registry or a worker holds, and leaves the registry, the queue
\* and the workers alone
C7_WaitObservational ==
  [][(waiter' # waiter \/ reply'.op = "wait") =>
        /\ UNCHANGED <<jobs, queue, worker, cleanup, now, allocs>>
        /\ \A r \in Refs : Held(r) => heap'[r] = heap[r]]_vars

C7_Witness ==
  /\ reply.op = "wait"
  /\ reply.res = "WaitTimeout"
  /\ HasJob(reply.id)
  /\ heap[RefOf(reply.id)].status = "running"
  /\ \E w \in Workers : worker[w].pc = "busy" /\ worker[w].rec = RefOf(reply.id)

\* C8: whenever wait_for_completion returns a record, the record's status is
\* succeeded, failed or cancelled
C8_WaitReturnsFinal ==
  (reply.op = "wait" /\ reply.res \notin {"JobNotFound", "WaitTimeout"}) =>
    reply.res \in Terminal

\* C9: a record whose status is succeeded, failed or cancelled keeps that
\* status, and the only status changes are queued->running,
\* queued->cancelled, running->succeeded and running->failed
C9_StatusTransitions ==
  [][\A r \in Refs :
       (heap[r].status # "free" /\ heap'[r].status # "free"
          /\ heap'[r].status # heap[r].status) =>
         <<heap[r].status, heap'[r].status>> \in
            {<<"queued", "running">>, <<"queued", "cancelled">>,
             <<"running", "succeeded">>, <<"running", "failed">>}]_vars

\* C10: a record's completion signal is set exactly when its status is
\* succeeded, failed or cancelled, and it is set at most once
C10_DoneIffTerminal ==
  \A r \in Refs :
    heap[r].status # "free" =>
      /\ heap[r].done_event <=> heap[r].status \in Terminal
      /\ heap[r].sets <= 1

\* C11: no job id is in the admission queue twice, no two workers hold the
\* same record in flight, and no record already started (or finished) is
\* moved to Running again
C11_RunOnce ==
  /\ [](/\ \A i, j \in DOMAIN queue : queue[i] = queue[j] => i = j
        /\ \A v, w \in Workers :
             (worker[v].pc = "busy" /\ worker[w].pc = "busy"
                /\ worker[v].rec = worker[w].rec) => v = w)
  /\ [][\A w \in Workers :
          (worker'[w].pc = "busy" /\ worker'[w] # worker[w]) =>
            heap[worker'[w].rec].status = "queued"]_vars

\* the retry loop has ended, by returning or by raising
RetryEnded == retry.pc \in {"returned", "raised"}

\* every run of the call failed
AllRunsFailed == \A i \in DOMAIN retry.retry_log : ~retry.retry_log[i].success

\* every repair asked for returned, at the cost c
AllFixesCost(c) ==
  /\ Len(retry.extra_usage) = Len(retry.fix_calls)
  /\ \A i \in DOMAIN retry.extra_usage : retry.extra_usage[i] = c

\* C12: with max_retries 3, a ceiling of $5, nothing spent so far, every run
\* failing and every repair returning at a cost of $1, the loop returns a
\* failure after exactly 3 runs, 3 log entries and 2 repairs (after attempts
\* 1 and 2, none after attempt 3), with a cumulative cost of $2
C12_ThreeRunsTwoRepairs ==
  (/\ RetryEnded
   /\ retry.max_retries = 3
   /\ retry.max_cost_usd = Usd(5)
   /\ retry.spent_so_far = 0
   /\ AllRunsFailed
   /\ AllFixesCost(Usd(1))) =>
     /\ retry.pc = "returned"
     /\ Len(retry.run_calls) = 3
     /\ Len(retry.retry_log) = 3
     /\ retry.fix_calls = <<1, 2>>
     /\ retry.cumulative_cost = Usd(2)
     /\ ~retry.result.success

C12_Witness ==
  /\ retry.pc = "returned"
  /\ retry.max_retries = 3
  /\ retry.max_cost_usd = Usd(5)
  /\ retry.spent_so_far = 0
  /\ AllRunsFailed
  /\ retry.extra_usage = <<Usd(1), Usd(1)>>
  /\ retry.fix_calls = <<1, 2>>
  /\ Len(retry.retry_log) = 3

\* C13: with a ceiling of $0.5, nothing spent so far, max_retries at least 2,
\* every run failing and every repair costing $1, the loop returns a failure
\* with exactly 1 log entry and no repair call
C13_HalfDollarCeiling ==
  (/\ RetryEnded
   /\ retry.max_retries >= 2
   /\ retry.max_cost_usd = HalfUsd
   /\ retry.spent_so_far = 0
   /\ AllRunsFailed
   /\ AllFixesCost(Usd(1))) =>
     /\ retry.pc = "returned"
     /\ Len(retry.retry_log) = 1
     /\ retry.fix_calls = <<>>
     /\ ~retry.result.success

RECURSIVE Sum(_)
Sum(costs) == IF costs = <<>> THEN 0 ELSE Head(costs) + Sum(Tail(costs))

\* C14: when the retry loop ends, the costs of the repairs it performed add
\* up to no more than max_cost_usd
C14_CeilingIsHard ==
  RetryEnded => Sum(retry.extra_usage) <= retry.max_cost_usd

\* C15: whatever max_retries, run results and repair results, the retry loop
\* never ends by raising
C15_NeverRaises == retry.pc # "raised"

\* positions of the registry whose record is succeeded, failed or cancelled
TerminalAt(js, h) == {i \in DOMAIN js : h[js[i].ref].status \in Terminal}

\* positions whose record is older than the TTL when the tick starts
Aged == {i \in TerminalAt(jobs, heap) : now - heap[jobs[i].ref].finished_at > Ttl}

\* the step is a sweep tick (what is cheap to test comes first)
SweepStep ==
  /\ cleanup = "running"
  /\ reply' = NoReply
  /\ UNCHANGED <<queue, worker, cleanup, waiter, now, allocs>>
  /\ Sweep

\* C16: a sweep tick removes from the registry every record that was terminal
\* and finished more than the TTL ago when the tick started; get on its id
\* then fails with the not-found error, and an id absent from the registry
\* comes back only by a successful submit of that id
C16_SweepDropsExpired ==
  [][/\ SweepStep => \A i \in Aged :
                       /\ jobs[i].id \notin JobIds'
                       /\ GetResult(jobs', jobs[i].id) = "JobNotFound"
     /\ \A id \in JobIds' \ JobIds : reply' = Reply("submit", id, "ok")]_vars

C16_Witness ==
  /\ allocs = 1
  /\ jobs = <<>>
  /\ cleanup = "running"
  /\ \E c \in Waiters :
       /\ waiter[c].pc = "waiting"
       /\ GetResult(jobs, waiter[c].id) = "JobNotFound"
       /\ heap[waiter[c].rec].status \in Terminal
       /\ now - heap[waiter[c].rec].finished_at > Ttl

\* C17: after a sweep tick the registry holds at most max_job_records
\* terminal records; when the T terminal records that outlive the TTL pass
\* are more than max_job_records, exactly T - max_job_records of them are
\* removed, none of them finished later than a terminal record that stays
C17_SweepCapsTerminal ==
  [][SweepStep =>
       LET fresh == TerminalAt(jobs, heap) \ Aged
           gone == {i \in fresh : jobs[i].id \notin JobIds'}
       IN /\ Cardinality(TerminalAt(jobs', heap')) <= MaxJobRecords
          /\ Cardinality(fresh) > MaxJobRecords =>
               /\ Cardinality(gone) = Cardinality(fresh) - MaxJobRecords
               /\ \A e \in gone, k \in fresh \ gone :
                    heap[jobs[e].ref].finished_at <= heap[jobs[k].ref].finished_at]_vars

\* the sweeper removed a record younger than the TTL, which a waiter still
\* holds, and kept a terminal record that finished later
C17_Witness ==
  /\ Cardinality(TerminalAt(jobs, heap)) = MaxJobRecords
  /\ \E c \in Waiters :
       /\ waiter[c].pc = "waiting"
       /\ \A i \in DOMAIN jobs : jobs[i].ref # waiter[c].rec
       /\ heap[waiter[c].rec].status \in Terminal
       /\ now - heap[waiter[c].rec].finished_at <= Ttl
       /\ \A i \in TerminalAt(jobs, heap) :
            heap[jobs[i].ref].finished_at > heap[waiter[c].rec].finished_at

\* C18: a record whose status is queued or running stays in the registry at
\* every step, sweep ticks included, whatever its age: a record leaves the
\* registry only while its status is succeeded, failed or cancelled
C18_SweepKeepsActive ==
  [][\A i \in DOMAIN jobs :
       heap[jobs[i].ref].status \in {"queued", "running"} =>
         \E k \in DOMAIN jobs' : jobs'[k] = jobs[i]]_vars

\* a sweep tick has removed one record and kept a running one older than the
\* TTL
C18_Witness ==
  /\ allocs = 2
  /\ Len(jobs) = 1
  /\ heap[jobs[1].ref].status = "running"
  /\ now - heap[jobs[1].ref].created_at > Ttl
  /\ reply = NoReply

\* the queue holds an id a worker would run
Runnable == NextJob(queue, jobs, heap) # <<>>

\* C19: a worker waiting for a job can start the next runnable job of the
\* queue whatever the other worker is doing: the start of a job never waits
\* for the job another worker runs to return
C19_StartsIndependently ==
  \A w \in Workers : (worker[w].pc = "idle" /\ Runnable) =>
                       ENABLED (WorkerTake(w) /\ worker'[w].pc = "busy")

\* both workers run a job of their own at once
C19_Witness ==
  /\ worker["w1"].pc = "busy"
  /\ worker["w2"].pc = "busy"
  /\ worker["w1"].rec # worker["w2"].rec
  /\ heap[worker["w1"].rec].status = "running"
  /\ heap[worker["w2"].rec].status = "running"
  /\ allocs = 2

C21_ShutdownStopsWorkers ==
  /\ [](cleanup = "stopped" => \A w \in Workers : worker[w].pc = "stopped")
  /\ [][cleanup' = "stopped" =>
          /\ \A r \in Refs : heap'[r].status = "running" => heap[r].status = "running"
          /\ Len(queue') >= Len(queue)
          /\ SubSeq(queue', 1, Len(queue)) = queue
          /\ SubSeq(jobs', 1, Len(jobs)) = jobs
          /\ \A r \in Refs :
               (heap[r].status = "queued" /\ heap'[r] # heap[r]) =>
                 (reply'.op = "cancel" /\ heap'[r].status = "cancelled")
          /\ cleanup = "running" =>
               \A r \in Refs :
                 heap[r].status = "running" =>
                   /\ heap'[r].status = "running"
                   /\ heap'[r].result = heap[r].result
                   /\ heap'[r].error = heap[r].error]_vars

\* after shutdown one record is abandoned in flight and another is still
\* queued with its id in the queue
C21_Witness ==
  /\ cleanup = "stopped"
  /\ \E r \in Refs : heap[r].status = "running" /\ heap[r].finished_at # NoTime
  /\ \E i \in DOMAIN queue :
       /\ HasJob(queue[i])
       /\ heap[RefOf(queue[i])].status = "queued"
       /\ heap[RefOf(queue[i])].created_at < now

\* C22: for every record created_at <= started_at when started_at is set and
\* started_at <= finished_at when both are set, and once finished_at is set
\* neither started_at nor finished_at is rewritten to a later value
C22_TimestampsOrdered ==
  /\ [](\A r \in Refs :
          heap[r].status # "free" =>
            /\ heap[r].started_at # NoTime => heap[r].created_at <= heap[r].started_at
            /\ (heap[r].started_at # NoTime /\ heap[r].finished_at # NoTime) =>
                 heap[r].started_at <= heap[r].finished_at)
  /\ [][\A r \in Refs :
          (heap[r].finished_at # NoTime /\ heap'[r].status # "free") =>
            /\ heap'[r].started_at <= heap[r].started_at
            /\ heap'[r].finished_at <= heap[r].finished_at]_vars

\* C23: a record's result is set only if its status is succeeded or failed,
\* and its error is set only if its status is failed
C23_ResultAndErrorByStatus ==
  \A r \in Refs :
    heap[r].status # "free" =>
      /\ heap[r].result # None => heap[r].status \in {"succeeded", "failed"}
      /\ heap[r].error # None => heap[r].status = "failed"

\* the progress values the callback sets for a run or repair stage
StageProgress ==
  {20 + ((60 * (c[2] - 1)) \div Max(c[3], 1)) : c \in LoopCalls}

\* C24: every record's progress is in 0..100: 0 while queued or cancelled,
\* while running 5 or a value the progress callback sets, and 100 once the
\* worker has finished the job
C24_ProgressByStatus ==
  \A r \in Refs :
    heap[r].status # "free" =>
      /\ heap[r].progress \in 0..100
      /\ heap[r].status \in {"queued", "cancelled"} => heap[r].progress = 0
      /\ heap[r].status = "running" => heap[r].progress \in {5, 18} \cup StageProgress
      /\ heap[r].status \in {"succeeded", "failed"} => heap[r].progress = 100

\* the step is worker w storing the outcome o of the operation it awaited
\* (the unchanged variables are tested first)
FinishStep(w, o) ==
  /\ worker[w].pc = "busy"
  /\ UNCHANGED <<jobs, cleanup, waiter, now, allocs>>
  /\ WorkerFinish(w, o)

\* after the step the record w held is still referred to, and w has not
\* started it again in the same step from an id left in the queue
KeptAfter(w) ==
  /\ worker[w].rec \in LiveRefs(jobs', worker', waiter')
  /\ ~(worker'[w].pc = "busy" /\ worker'[w].rec = worker[w].rec)

\* C25: when the operation of a running record returns success, returns
\* failure or raises, the worker sets finished_at and sets the completion
\* signal once, and the record is then succeeded or failed
C25_FinishAlwaysSignals ==
  [][\A w \in Workers, o \in Outcomes :
       (FinishStep(w, o) /\ worker[w].rec \in LiveRefs(jobs', worker', waiter')) =>
         LET r == worker[w].rec
         IN /\ heap'[r].finished_at = now
            /\ heap'[r].done_event
            /\ heap'[r].sets = Min(heap[r].sets + 1, 2)
            /\ KeptAfter(w) => heap'[r].status \in {"succeeded", "failed"}]_vars

\* a record whose operation raised: finished, signalled once
C25_Witness ==
  \E r \in Refs :
    /\ heap[r].status = "failed"
    /\ heap[r].error = "exception"
    /\ heap[r].started_at # NoTime
    /\ heap[r].finished_at = now
    /\ heap[r].done_event
    /\ heap[r].sets = 1
    /\ \A w \in Workers : worker[w].pc = "idle"

\* C26: when the operation of a job raises, the worker stores status failed
\* and the error on that record, changes no other record except the one it
\* starts next, leaves the registry and the other workers alone, keeps
\* running and starts the next runnable id of the queue if there is one
C26_RaiseIsContained ==
  [][\A w \in Workers :
       FinishStep(w, "raise") =>
         LET r == worker[w].rec
         IN /\ KeptAfter(w) =>
                 heap'[r] = [heap[r] EXCEPT !.status = "failed", !.error = "exception",
                               !.progress = 100, !.finished_at = now,
                               !.done_event = TRUE, !.sets = Min(@ + 1, 2)]
            /\ worker'[w].pc = IF Runnable THEN "busy" ELSE "idle"
            /\ \A v \in Workers \ {w} : worker'[v] = worker[v]
            /\ jobs' = jobs
            /\ \A s \in Refs \ {r} :
                 \/ heap'[s] = heap[s]
                 \/ /\ worker'[w].pc = "busy"
                    /\ worker'[w].rec = s
                    /\ heap'[s] = [heap[s] EXCEPT !.status = "running",
                                     !.started_at = now, !.progress = 5]]_vars

\* one record failed by an exception, and a worker running the other record,
\* started at the time the first one failed
C26_Witness ==
  \E r, s \in Refs :
    /\ r # s
    /\ heap[r].status = "failed"
    /\ heap[r].error = "exception"
    /\ heap[r].result = None
    /\ heap[s].status = "running"
    /\ heap[s].started_at = heap[r].finished_at
    /\ heap[s].created_at < heap[s].started_at
    /\ \E w \in Workers : worker[w].pc = "busy" /\ worker[w].rec = s
    /\ \E w \in Workers : worker[w].pc = "idle"

\* C27: the worker sets succeeded, with the result and progress 100, exactly
\* when the operation returned a successful outcome, and failed, with an
\* error and progress 100, exactly when it returned an unsuccessful outcome
\* or raised
C27_StatusFollowsOutcome ==
  [][\A w \in Workers, o \in Outcomes :
       (FinishStep(w, o) /\ KeptAfter(w)) =>
         LET rec == heap'[worker[w].rec]
         IN /\ rec.progress = 100
            /\ rec.status = IF o = "success" THEN "succeeded" ELSE "failed"
            /\ o = "success" => rec.result = "success_result"
            /\ o = "failure" => rec.result = "failure_result" /\ rec.error = "failed_after_retries"
            /\ o = "raise" => rec.error = "exception" /\ rec.result = heap[worker[w].rec].result]_vars

\* one record succeeded and one failed after its retries
C27_Witness ==
  \E r, s \in Refs :
    /\ heap[r].status = "succeeded"
    /\ heap[r].result = "success_result"
    /\ heap[r].error = None
    /\ heap[r].progress = 100
    /\ heap[s].status = "failed"
    /\ heap[s].result = "failure_result"
    /\ heap[s].error = "failed_after_retries"
    /\ heap[s].progress = 100

\* C28: a cancelled record is never executed: it has no started_at, result
\* or error, no worker holds it, and it never changes again until it is
\* evicted; a worker that takes a job from the queue drops every leading id
\* whose record is cancelled or missing and starts the first id after them
C28_CancelledNeverRuns ==
  /\ [](\A r \in Refs : heap[r].status = "cancelled" =>
          /\ heap[r].started_at = NoTime
          /\ heap[r].result = None
          /\ heap[r].error = None
          /\ \A w \in Workers : ~(worker[w].pc = "busy" /\ worker[w].rec = r))
  /\ [][/\ \A r \in Refs : heap[r].status = "cancelled" =>
              (heap'[r] = heap[r] \/ heap'[r] = FreeSlot)
        /\ \A w \in Workers : (worker[w].pc = "idle" /\ worker'[w].pc = "busy") =>
              \E k \in DOMAIN queue :
                /\ queue' = SubSeq(queue, k + 1, Len(queue))
                /\ HasJob(queue[k])
                /\ worker'[w].rec = RefOf(queue[k])
                /\ heap[RefOf(queue[k])].status # "cancelled"
                /\ \A i \in 1..(k - 1) :
                     ~HasJob(queue[i]) \/ heap[RefOf(queue[i])].status = "cancelled"
        /\ (worker' = worker /\ heap' = heap /\ Len(queue') < Len(queue)) =>
              /\ queue' = <<>>
              /\ \A i \in DOMAIN queue :
                   ~HasJob(queue[i]) \/ heap[RefOf(queue[i])].status = "cancelled"]_vars

\* a cancelled record, still registered and never started, whose id the
\* workers have taken off the queue; a second record has come and gone
C28_Witness ==
  /\ queue = <<>>
  /\ allocs = 2
  /\ Len(jobs) = 1
  /\ \A w \in Workers : worker[w].pc = "idle"
  /\ \E r \in Refs :
       /\ heap[r].status = "cancelled"
       /\ heap[r].started_at = NoTime
       /\ RefOf(jobs[1].id) = r
  /\ \A r \in Refs : heap[r].status \in {"cancelled", "free"}

\* C29: once a run has returned success the loop has returned: the successful
\* entry is the last of the attempt log, no run and no repair was called after
\* it, and the loop returned the code that run was given together with the
\* outcome of that run
C29_StopsAtFirstSuccess ==
  \A i \in DOMAIN retry.retry_log :
    retry.retry_log[i].success =>
      /\ i = Len(retry.retry_log)
      /\ retry.pc = "returned"
      /\ Len(retry.run_calls) = i
      /\ \A j \in DOMAIN retry.fix_calls : retry.fix_calls[j] < retry.retry_log[i].attempt
      /\ retry.code = retry.run_calls[i]
      /\ retry.result.bound
      /\ retry.result.success
      /\ retry.result.run = i

\* the second run succeeded with an attempt to spare
C29_Witness ==
  /\ retry.pc = "returned"
  /\ retry.max_retries = 3
  /\ Len(retry.retry_log) = 2
  /\ ~retry.retry_log[1].success
  /\ retry.retry_log[2].success
  /\ retry.run_calls = <<0, 1>>
  /\ retry.fix_calls = <<1>>
  /\ retry.code = 1

\* C30: for max_retries >= 1 the loop calls run at most max_retries times and
\* repair at most max_retries - 1 times, every repair is asked for after an
\* attempt numbered below max_retries, and with max_retries = 1 there is no
\* repair
C30_CallsAreBounded ==
  retry.max_retries >= 1 =>
    /\ Len(retry.run_calls) <= retry.max_retries
    /\ Len(retry.fix_calls) <= retry.max_retries - 1
    /\ \A j \in DOMAIN retry.fix_calls : retry.fix_calls[j] < retry.max_retries
    /\ retry.max_retries = 1 => retry.fix_calls = <<>>

\* both bounds met: max_retries = 2, two failed runs and one repair
C30_Witness ==
  /\ retry.pc = "returned"
  /\ retry.max_retries = 2
  /\ Len(retry.run_calls) = 2
  /\ Len(retry.fix_calls) = 1
  /\ AllRunsFailed

\* cumulative_cost when attempt k has just failed: the seed plus the costs of
\* the k - 1 repairs that led to attempt k
CostBefore(k) == retry.spent_so_far + Sum(SubSeq(retry.extra_usage, 1, k - 1))

\* the budget gate stops the loop at the failed attempt k
StoppedAt(k) ==
  /\ retry.pc = "returned"
  /\ Len(retry.retry_log) = k
  /\ Len(retry.run_calls) = k
  /\ Len(retry.fix_calls) = k - 1
  /\ ~retry.result.success
  /\ retry.result.run = k

\* C31: a repair is asked for only while cumulative_cost is strictly below the
\* ceiling; a failed attempt before the last one that finds cumulative_cost at
\* or above the ceiling ends the loop with that failing outcome and no further
\* run or repair; a call whose spent_so_far is at or above the ceiling ends
\* after exactly one attempt and no repair
C31_GateIsInclusive ==
  /\ \A j \in DOMAIN retry.fix_calls : CostBefore(retry.fix_calls[j]) < retry.max_cost_usd
  /\ \A k \in DOMAIN retry.retry_log :
       (/\ ~retry.retry_log[k].success
        /\ k < retry.max_retries
        /\ CostBefore(k) >= retry.max_cost_usd) => StoppedAt(k)
  /\ (RetryEnded /\ retry.spent_so_far >= retry.max_cost_usd) =>
       /\ Len(retry.run_calls) = 1
       /\ retry.fix_calls = <<>>

\* the last repair asked for has not returned
RepairUnanswered == Len(retry.fix_calls) > Len(retry.extra_usage)

\* C32: when the repair asked for after the failed attempt k raises, the loop
\* returns at once: code, cumulative_cost, extra_usage, log and outcome stay
\* what they were before the repair call, the log has k entries, the code is
\* the one attempt k ran, the outcome is the failure of attempt k, and no run
\* or repair follows
C32_RepairFailsClosed ==
  /\ [](RepairUnanswered =>
          LET k == retry.fix_calls[Len(retry.fix_calls)]
          IN /\ retry.pc \in {"fix", "returned"}
             /\ Len(retry.fix_calls) = Len(retry.extra_usage) + 1
             /\ Len(retry.retry_log) = k
             /\ retry.retry_log[k].attempt = k
             /\ Len(retry.run_calls) = k
             /\ retry.code = retry.run_calls[k]
             /\ retry.result.bound
             /\ ~retry.result.success
             /\ retry.result.run = k
             /\ retry.cumulative_cost = retry.spent_so_far + Sum(retry.extra_usage))
  /\ [][FixRaises => retry' = [retry EXCEPT !.pc = "returned"]]_vars
  /\ [][retry.pc = "returned" => retry' = retry]_vars

\* the repair after attempt 2 raised, after a first repair that was paid for
C32_Witness ==
  /\ retry.pc = "returned"
  /\ retry.max_retries = 3
  /\ retry.fix_calls = <<1, 2>>
  /\ Len(retry.extra_usage) = 1
  /\ retry.extra_usage[1] > 0
  /\ retry.cumulative_cost = retry.spent_so_far + retry.extra_usage[1]
  /\ Len(retry.retry_log) = 2
  /\ retry.code = 1

\* C33: the attempt log only grows, one entry at a time and only when a run
\* returns; it has one entry per run call that has returned; its entries are
\* numbered 1, 2, ... in order and none above max_retries; only the last entry
\* can be a success; a successful entry has an empty error excerpt
C33_LogWellFormed ==
  /\ [](/\ Len(retry.run_calls) = Len(retry.retry_log) + (IF retry.pc = "run" THEN 1 ELSE 0)
        /\ \A i \in DOMAIN retry.retry_log :
             /\ retry.retry_log[i].attempt = i
             /\ i <= retry.max_retries
             /\ i < Len(retry.retry_log) => ~retry.retry_log[i].success
             /\ retry.retry_log[i].success => retry.retry_log[i].error_text = "")
  /\ [][/\ Len(retry.retry_log') \in {Len(retry.retry_log), Len(retry.retry_log) + 1}
        /\ SubSeq(retry.retry_log', 1, Len(retry.retry_log)) = retry.retry_log
        /\ Len(retry.retry_log') > Len(retry.retry_log) => retry.pc = "run"]_vars

\* a full log: a failure with an excerpt, a failure without diagnostics, and
\* a success at the last attempt
C33_Witness ==
  /\ retry.pc = "returned"
  /\ retry.max_retries = 3
  /\ Len(retry.retry_log) = 3
  /\ retry.retry_log[1].error_text = "excerpt"
  /\ ~retry.retry_log[2].success
  /\ retry.retry_log[2].error_text = ""
  /\ retry.retry_log[3].success

\* C34: the registry keeps records in the order of their submits; when a
\* record goes from queued to running, no record submitted after it has been
\* started before
C34_StartsInSubmitOrder ==
  [][\A i, j \in DOMAIN jobs :
       (/\ i < j
        /\ heap[jobs[i].ref].status = "queued"
        /\ heap'[jobs[i].ref].status = "running") =>
          heap[jobs[j].ref].started_at = NoTime]_vars

\* C36: while the workers run, every queued record eventually has a terminal
\* status and its completion signal set, and every caller waiting in
\* wait_for_completion eventually returns
C36_EveryJobCompletes ==
  /\ \A r \in Refs :
       (cleanup = "running" /\ heap[r].status = "queued")
         ~> (heap[r].status \in Terminal /\ heap[r].done_event)
  /\ \A c \in Waiters :
       (cleanup = "running" /\ waiter[c].pc = "waiting") ~> (waiter[c].pc = "idle")

\* a caller that waited for a job a worker ran has been given its status
C36_Witness ==
  /\ cleanup = "running"
  /\ reply.op = "wait"
  /\ reply.res \in {"succeeded", "failed"}
  /\ \E r \in Refs :
       /\ heap[r].id = reply.id
       /\ heap[r].status = reply.res
       /\ heap[r].started_at # NoTime
       /\ heap[r].done_event

\* C37: between startup and shutdown the records with status running are no
\* more than the workers, and each of them is held by exactly one worker
C37_OneWorkerPerRunning ==
  cleanup = "running" =>
    /\ Cardinality({r \in Refs : heap[r].status = "running"}) <= Cardinality(Workers)
    /\ \A r \in Refs : heap[r].status = "running" => Cardinality(Holders(r)) = 1

\* C38: when the retry loop returns with max_retries >= 1, the code returned
\* is the code given to the last run call and the result returned is the
\* result of that call; the log has one entry more than there are repair
\* usages; and cumulative_cost is spent_so_far plus the sum of those usages
C38_ReturnIsConsistent ==
  (retry.pc = "returned" /\ retry.max_retries >= 1) =>
    /\ retry.run_calls # <<>>
    /\ retry.code = retry.run_calls[Len(retry.run_calls)]
    /\ retry.result.bound
    /\ retry.result.run = Len(retry.run_calls)
    /\ retry.result.success = retry.retry_log[Len(retry.retry_log)].success
    /\ Len(retry.retry_log) = Len(retry.extra_usage) + 1
    /\ retry.cumulative_cost = retry.spent_so_far + Sum(retry.extra_usage)

\* a return after two paid repairs on top of a seed
C38_Witness ==
  /\ retry.pc = "returned"
  /\ retry.max_retries = 3
  /\ retry.spent_so_far = 1
  /\ retry.extra_usage = <<1, 2>>
  /\ retry.cumulative_cost = 4
  /\ Len(retry.retry_log) = 3
  /\ retry.code = 2

\* C39: cancel leaves the queue as it is; the id of a cancelled job keeps its
\* place and counts when submit tests whether the queue is full; ids leave the
\* queue only from its head, taken by a worker; so every queued record has
\* its id in the queue and the queue holds at least as many ids as there are
\* queued records
C39_CancelKeepsQueue ==
  /\ [](/\ \A r \in Refs : heap[r].status = "queued" =>
               \E i \in DOMAIN queue : queue[i] = heap[r].id
        /\ Len(queue) >= Cardinality({r \in Refs : heap[r].status = "queued"}))
  /\ [][/\ reply'.op = "cancel" => queue' = queue
        /\ (reply'.op = "submit" /\ Len(queue) >= MaxQueueSize) =>
              (reply'.res = "QueueFull" /\ queue' = queue /\ jobs' = jobs)
        /\ Len(queue') < Len(queue) =>
              /\ reply' = NoReply
              /\ jobs' = jobs
              /\ UNCHANGED <<cleanup, waiter, now, allocs>>
              /\ queue' = SubSeq(queue, Len(queue) - Len(queue') + 1, Len(queue))]_vars

\* a queue full of cancelled ids, no worker having come by, turns a submit down
C39_Witness ==
  /\ reply.op = "submit"
  /\ reply.res = "QueueFull"
  /\ Len(queue) = MaxQueueSize
  /\ \A i \in DOMAIN queue : HasJob(queue[i]) /\ heap[RefOf(queue[i])].status = "cancelled"
  /\ \A r \in Refs : heap[r].status # "queued"

\* C40: in the validator a job whose pipeline steps all succeed, whatever the
\* verdict, ends succeeded with its result stored, and a job ends failed only
\* when a step of the pipeline raises
C40_ValidatorSucceeds ==
  [][\A w \in Workers, steps \in PipelineOutcomes :
       (/\ worker[w].pc = "busy"
        /\ UNCHANGED <<jobs, cleanup, waiter, now, allocs>>
        /\ ValidateFinish(w, steps)
        /\ KeptAfter(w)) =>
          LET rec == heap'[worker[w].rec]
          IN /\ steps # "raise" => (rec.status = "succeeded" /\ rec.result = steps)
             /\ rec.status = "failed" => steps = "raise"]_vars

====
